---- MODULE Spec2Model ----
(***************************************************************************)
(* Model of plooney/fast_sweeping: the local distance initializer          *)
(* (src/src/level_set.rs) and the signed distance facade (src/src/lib.rs). *)
(*                                                                         *)
(* Numbers.  The program computes in f64.  The model keeps the structure   *)
(* of IEEE-754 binary floating point and scales its widths down.  A finite *)
(* magnitude is m * 2^e with an integer mantissa m < 2^Precision and an    *)
(* exponent MinExp <= e <= MaxExp; m >= 2^(Precision-1) except at e =      *)
(* MinExp (the subnormal values).  A number is held as its bit pattern     *)
(* read as a signed integer, as the patterns of IEEE-754 are ordered:      *)
(*     0 for zero, m for a subnormal value,                                *)
(*     (e - MinExp + 1) * 2^(Precision-1) + (m - 2^(Precision-1)) else,    *)
(* negated for a negative number; FMAX + 1 is the infinity, FMAX + 2 NaN.  *)
(* The order of the patterns is the order of the values, so comparisons    *)
(* are comparisons of integers.  Every arithmetic operation returns the    *)
(* exact result rounded to the nearest representable value, ties to even;  *)
(* a result beyond FMAX is an infinity, and 0/0, Inf/Inf, 0*Inf, Inf-Inf   *)
(* and the root of a negative number are NaN.  Zero carries no sign.       *)
(* The normal numbers span the binades of f64, 2^-1022 to 2^1023; the      *)
(* mantissa is narrower.  (f64: Precision 53, FMAX = f64::MAX.)            *)
(***************************************************************************)
EXTENDS Integers, Sequences, FiniteSets, TLC

Precision == 13
\* The exponent of the last mantissa bit: of the smallest normal number
\* 2^-1022 (and of the subnormals), and of the largest binade, 2^1023.
MinExp == -1022 - (Precision - 1)
MaxExp == 1023 - (Precision - 1)

Hidden == 2 ^ (Precision - 1)
Full == 2 ^ Precision

\* The pattern of mantissa m and exponent e; a mantissa of Full carries into
\* the next exponent.
Enc(m, e) == IF m < Hidden THEN m ELSE (e - MinExp + 1) * Hidden + (m - Hidden)
\* Mantissa and exponent of a finite non-negative pattern.
Mant(c) == IF c < Full THEN c ELSE Hidden + (c % Hidden)
Expo(c) == IF c < Full THEN MinExp ELSE MinExp + (c \div Hidden) - 1

FMAX == Enc(Full - 1, MaxExp)
Inf == FMAX + 1
\* No comparison of the source has a NaN operand on the inputs considered,
\* which are finite.
NaN == FMAX + 2

Abs(x) == IF x < 0 THEN -x ELSE x
Sgn(x) == IF x < 0 THEN -1 ELSE 1
IsNaN(x) == x = NaN
IsInf(x) == Abs(x) = Inf


\* floor((n / dn) * 2^-k)
Quot(n, dn, k) == IF k >= 0 THEN n \div (dn * 2 ^ k) ELSE (n * 2 ^ (-k)) \div dn

\* The k that leaves Precision significant bits in Quot(n, dn, k), n > 0.
RECURSIVE NatShift(_, _, _)
NatShift(n, dn, k) ==
  IF Quot(n, dn, k) >= Full THEN NatShift(n, dn, k + 1)
  ELSE IF Quot(n, dn, k) < Hidden THEN NatShift(n, dn, k - 1)
  ELSE k

\* Gradual underflow: a result below exponent MinExp keeps fewer bits; one
\* more than Precision bits below, it is less than half the smallest value.
Shift[kn \in Int, e \in Int] ==
  IF e + kn >= MinExp THEN kn
  ELSE IF MinExp - e > kn + Precision + 1 THEN kn + Precision + 1
  ELSE MinExp - e

\* (n / dn) * 2^e with its last kept bit at exponent e + k, rounded to
\* nearest, ties to even.
RNAt[n \in Nat, dn \in Nat, e \in Int, k \in Int] ==
  LET num == IF k < 0 THEN n * 2 ^ (-k) ELSE n
      den == IF k > 0 THEN dn * 2 ^ k ELSE dn
      q == num \div den
      r == num - q * den
      up == 2 * r > den \/ (2 * r = den /\ q % 2 = 1)
      c == Enc(IF up THEN q + 1 ELSE q, e + k)
  IN IF c > FMAX THEN Inf ELSE c

\* The pattern of the non-negative rational (n / dn) * 2^e, rounded.
RN[n \in Nat, dn \in Nat, e \in Int] ==
  IF n = 0 THEN 0 ELSE RNAt[n, dn, e, Shift[NatShift(n, dn, 0), e]]

\* The number m * 2^e, m an integer, as the format rounds it.
Fl(m, e) == Sgn(m) * RN[Abs(m), 1, e]

FNeg[a \in Int] == IF IsNaN(a) THEN NaN ELSE -a

FAdd[a \in Int, b \in Int] ==
  IF IsNaN(a) \/ IsNaN(b) THEN NaN
  ELSE IF IsInf(a) THEN (IF IsInf(b) /\ b # a THEN NaN ELSE a)
  ELSE IF IsInf(b) THEN b
  ELSE IF a = 0 THEN b
  ELSE IF b = 0 THEN a
  ELSE LET hi == IF Abs(a) >= Abs(b) THEN a ELSE b
           lo == IF Abs(a) >= Abs(b) THEN b ELSE a
           gap == Expo(Abs(hi)) - Expo(Abs(lo))
           \* beyond this gap lo is less than a quarter of hi's last place
       IN IF gap > Precision + 1 THEN hi
          ELSE LET s == Sgn(hi) * Mant(Abs(hi)) * 2 ^ gap + Sgn(lo) * Mant(Abs(lo))
               IN Sgn(s) * RN[Abs(s), 1, Expo(Abs(lo))]

FSub[a \in Int, b \in Int] == FAdd[a, FNeg[b]]

FMul[a \in Int, b \in Int] ==
  IF IsNaN(a) \/ IsNaN(b) THEN NaN
  ELSE IF a = 0 \/ b = 0 THEN (IF IsInf(a) \/ IsInf(b) THEN NaN ELSE 0)
  ELSE IF IsInf(a) \/ IsInf(b) THEN Sgn(a) * Sgn(b) * Inf
  ELSE Sgn(a) * Sgn(b)
         * RN[Mant(Abs(a)) * Mant(Abs(b)), 1, Expo(Abs(a)) + Expo(Abs(b))]

FDiv[a \in Int, b \in Int] ==
  IF IsNaN(a) \/ IsNaN(b) THEN NaN
  ELSE IF (a = 0 /\ b = 0) \/ (IsInf(a) /\ IsInf(b)) THEN NaN
  ELSE IF IsInf(a) \/ b = 0 THEN Sgn(a) * Sgn(b) * Inf
  ELSE IF IsInf(b) \/ a = 0 THEN 0
  ELSE Sgn(a) * Sgn(b)
         * RN[Mant(Abs(a)), Mant(Abs(b)), Expo(Abs(a)) - Expo(Abs(b))]

\* floor(sqrt(x)) by bisection.
Isqrt[x \in Nat] ==
  LET RECURSIVE In(_, _)
      In(lo, hi) ==
        IF lo = hi THEN lo
        ELSE IF ((lo + hi + 1) \div 2) * ((lo + hi + 1) \div 2) <= x
             THEN In((lo + hi + 1) \div 2, hi)
             ELSE In(lo, ((lo + hi + 1) \div 2) - 1)
  IN In(0, 2 ^ (Precision + 1))

\* The root of the integer x times 2^(2e), its inexactness kept as a half
\* below the integer part r.
RootAt[x \in Nat, r \in Nat, e \in Int] == RN[2 * r + (IF r * r < x THEN 1 ELSE 0), 2, e]

\* sqrt, correctly rounded.
FSqrt[a \in Int] ==
  IF IsNaN(a) \/ a < 0 THEN NaN
  ELSE IF IsInf(a) \/ a = 0 THEN a
  ELSE LET k == NatShift(Mant(a), 1, 0)
           m == Mant(a) * 2 ^ (-k)
           e == Expo(a) + k
           \* m * 2^e = x * 2^(e - s), e - s even, x of 2 * Precision + 1 bits
           s == Precision + 1 + ((e - Precision - 1) % 2)
           x == m * 2 ^ s
       IN RootAt[x, Isqrt[x], (e - s) \div 2]

\* f64::min: the smaller operand, and the other one when one is NaN.
FMin[a \in Int, b \in Int] ==
  IF IsNaN(a) THEN b
  ELSE IF IsNaN(b) THEN a
  ELSE IF b < a THEN b ELSE a

\* Literals of the source, as the compiler rounds them.
F(n) == Fl(n, 0)
One == F(1)
Half == Fl(1, -1)
Sqrt2 == FSqrt[F(2)]
SqrtHalf == FSqrt[Half]

\* Option<[f64; n]>, and the state of a call that has not returned.
None == [tag |-> "None"]
Some(r) == [tag |-> "Some", val |-> r]
Pending == [tag |-> "Pending"]
NotCalled == [tag |-> "NotCalled"]
IsSome(r) == r.tag = "Some"
IsNone(r) == r.tag = "None"
Returned(r) == IsSome(r) \/ IsNone(r)

(***************************************************************************)
(* level_set.rs: triangle_dist.  u is <<u[0], u[1], u[2]>>; vertex 0 is    *)
(* the right-angle vertex.  The result is None or Some(<<e0, e1, e2>>).    *)
(***************************************************************************)
Normalize(u) == IF u[1] < 0 THEN <<FNeg[u[1]], FNeg[u[2]], FNeg[u[3]]>> ELSE u

\* Faulty variant: the match without its arm (0., _, _).
ZeroCasesNoMixedArm(u0, u1, u2) ==
  IF u0 = 0 /\ u1 = 0 /\ u2 = 0 THEN Some(<<0, 0, 0>>)
  ELSE IF u1 = 0 /\ u2 = 0 THEN Some(<<SqrtHalf, 0, 0>>)
  ELSE IF u0 = 0 /\ u2 = 0 THEN Some(<<0, One, 0>>)
  ELSE IF u0 = 0 /\ u1 = 0 THEN Some(<<0, 0, One>>)
  ELSE IF u1 = 0 THEN Some(<<One, 0, Sqrt2>>)
  ELSE IF u2 = 0 THEN Some(<<One, Sqrt2, 0>>)
  ELSE None

\* The match on (u[0], u[1], u[2]) of the branch u[1] >= 0, u[2] >= 0.
ZeroCases(u0, u1, u2) ==
  IF u0 = 0 /\ u1 = 0 /\ u2 = 0 THEN Some(<<0, 0, 0>>)
  ELSE IF u1 = 0 /\ u2 = 0 THEN Some(<<SqrtHalf, 0, 0>>)
  ELSE IF u0 = 0 /\ u2 = 0 THEN Some(<<0, One, 0>>)
  ELSE IF u0 = 0 /\ u1 = 0 THEN Some(<<0, 0, One>>)
  ELSE IF u0 = 0 THEN Some(<<0, One, One>>)
  ELSE IF u1 = 0 THEN Some(<<One, 0, Sqrt2>>)
  ELSE IF u2 = 0 THEN Some(<<One, Sqrt2, 0>>)
  ELSE None

triangle_dist(uin) ==
  LET u == Normalize(uin)
      u0 == u[1]
      u1 == u[2]
      u2 == u[3]
      gx == FSub[u1, u0]
      gy == FSub[u2, u0]
      g_norm == FSqrt[FAdd[FMul[gx, gx], FMul[gy, gy]]]
  IN IF u1 >= 0 THEN
       IF u2 >= 0 THEN ZeroCases(u0, u1, u2)
       ELSE
         LET i02 == FDiv[u0, FSub[u0, u2]]
             i12 == FDiv[FMul[Sqrt2, u1], FSub[u1, u2]]
         IN IF gx <= 0 THEN Some(<<FDiv[u0, g_norm], i12, FSub[One, i02]>>)
            ELSE IF gx > FNeg[gy] THEN Some(<<i02, FDiv[u1, g_norm], FSub[Sqrt2, i12]>>)
            ELSE Some(<<i02, i12, FDiv[FNeg[u2], g_norm]>>)
     ELSE IF u2 >= 0 THEN
       LET i01 == FDiv[u0, FSub[u0, u1]]
           i12 == FDiv[FMul[Sqrt2, u1], FSub[u1, u2]]
       IN IF gy <= 0 THEN Some(<<FDiv[u0, g_norm], FSub[One, i01], FSub[Sqrt2, i12]>>)
          ELSE IF FNeg[gx] > gy THEN Some(<<i01, FDiv[FNeg[u1], g_norm], FSub[Sqrt2, i12]>>)
          ELSE Some(<<i01, i12, FDiv[u2, g_norm]>>)
     ELSE
       LET i10 == FDiv[u1, FSub[u1, u0]]
           i20 == FDiv[u2, FSub[u2, u0]]
       IN Some(<<FDiv[u0, g_norm], i10, i20>>)

(***************************************************************************)
(* level_set.rs: tetrahedron_dist.  u is <<u[0], u[1], u[2], u[3]>>.       *)
(***************************************************************************)
\* The literal 1e-15 = 1180591.62 * 2^-70, as the format rounds it.
Tiny == Fl(1180592, -70)

\* Faulty variant: the sign test made strict.
StrictPos(x) == x > 0

NonNeg(x) == x >= 0

\* for u in &mut u { if *u >= 0. { *u += tiny; n_pos += 1; } }
Bump(x) == IF NonNeg(x) THEN FAdd[x, Tiny] ELSE x
NPos(u) == Cardinality({m \in 1..4 : NonNeg(u[m])})

Sq[x \in Int] == FMul[x, x]

tetrahedron_dist(uin) ==
  LET u == [m \in 1..4 |-> Bump(uin[m])]
      n_pos == NPos(uin)
      sum == FAdd[FAdd[FAdd[0, Sq[FSub[u[2], u[1]]]], Sq[FSub[u[3], u[2]]]],
                  Sq[FSub[u[4], u[3]]]]
      g_norm_rcp == FDiv[One, FSqrt[sum]]
  IN IF n_pos = 0 \/ n_pos = 4 THEN None
     ELSE Some([m \in 1..4 |-> FMul[Abs(u[m]), g_norm_rcp]])

(***************************************************************************)
(* Buffers are functions on 0..len-1, indexed as in the source.            *)
(***************************************************************************)
BufLen(b) == Cardinality(DOMAIN b)
Nx(dm) == dm[1]
Ny(dm) == dm[2]
Nz(dm) == dm[3]
Prod(dm) == dm[1] * dm[2] * dm[3]

\* Faulty variant: the assertion on d.len() left out.
LensOkOnlyU(dm, ub, db) == Prod(dm) = BufLen(ub)

\* assert_eq!(product(dim), u.len()); assert_eq!(product(dim), d.len());
LensOk(dm, ub, db) == Prod(dm) = BufLen(ub) /\ Prod(dm) = BufLen(db)

\* for d in &mut *d { *d = std::f64::MAX; }
FillMax(db) == [i \in DOMAIN db |-> FMAX]

\* The length of the range 1..n of a loop: empty for n = 0 and n = 1.
Steps(n) == IF n > 1 THEN n - 1 ELSE 0

\* init_dist: the triangles in the order of the loops, two per cell.
NTriJobs(dm) == 2 * Steps(Nx(dm)) * Steps(Ny(dm))

CellTriangles(s, nx) == << <<s - nx - 1, s - nx, s - 1>>, <<s, s - nx, s - 1>> >>

\* Faulty variant: the cell index never advances.
TriJobStuck(dm, t) == CellTriangles(Nx(dm) + 1, Nx(dm))[1 + (t % 2)]

TriJob(dm, t) ==
  LET nx == Nx(dm)
      c == t \div 2
      j == 1 + (c \div (nx - 1))
      i == 1 + (c % (nx - 1))
  IN CellTriangles(j * nx + i, nx)[1 + (t % 2)]

\* Faulty variant: the new distance overwrites the entry.
MinIntoOverwrite(e, cur) == e

\* d[q] = e.min(d[q])
MinInto(e, cur) == FMin[e, cur]

\* One triangle of init_dist: r = triangle_dist(..); if let Some(e) = r { .. }
TriUpdate(db, ub, q) ==
  LET r == triangle_dist(<<ub[q[1]], ub[q[2]], ub[q[3]]>>)
  IN IF IsNone(r) THEN db
     ELSE [i \in DOMAIN db |->
             IF i = q[1] THEN MinInto(r.val[1], db[i])
             ELSE IF i = q[2] THEN MinInto(r.val[2], db[i])
             ELSE IF i = q[3] THEN MinInto(r.val[3], db[i])
             ELSE db[i]]

\* init_dist_3d: the six tetrahedra of a cube, as corner offsets.
ids ==
  << << <<0, 0, 0>>, <<1, 0, 0>>, <<1, 1, 0>>, <<1, 1, 1>> >>,
     << <<0, 0, 0>>, <<1, 0, 0>>, <<1, 0, 1>>, <<1, 1, 1>> >>,
     << <<0, 0, 0>>, <<0, 1, 0>>, <<1, 1, 0>>, <<1, 1, 1>> >>,
     << <<0, 0, 0>>, <<0, 1, 0>>, <<0, 1, 1>>, <<1, 1, 1>> >>,
     << <<0, 0, 0>>, <<0, 0, 1>>, <<1, 0, 1>>, <<1, 1, 1>> >>,
     << <<0, 0, 0>>, <<0, 0, 1>>, <<0, 1, 1>>, <<1, 1, 1>> >> >>

NTetJobs(dm) == 6 * Steps(Nx(dm)) * Steps(Ny(dm)) * Steps(Nz(dm))

TetJob(dm, t) ==
  LET ny == Ny(dm)
      nz == Nz(dm)
      c == t \div 6
      idx == ids[1 + (t % 6)]
      i == 1 + (c \div ((ny - 1) * (nz - 1)))
      j == 1 + ((c \div (nz - 1)) % (ny - 1))
      k == 1 + (c % (nz - 1))
      s == i * ny * nz + j * nz + k
  IN [m \in 1..4 |-> s - idx[m][1] * ny * nz - idx[m][2] * nz - idx[m][3]]

TetUpdate(db, ub, q) ==
  LET r == tetrahedron_dist([m \in 1..4 |-> ub[q[m]]])
  IN IF IsNone(r) THEN db
     ELSE [i \in DOMAIN db |->
             IF \E m \in 1..4 : q[m] = i
             THEN MinInto(r.val[CHOOSE m \in 1..4 : q[m] = i], db[i])
             ELSE db[i]]

(***************************************************************************)
(* eikonal.rs is not among the sources: fast_sweep_dist follows the        *)
(* description of the sweep solver (spacing 1, one pass over the four      *)
(* orderings, rows outermost).                                             *)
(***************************************************************************)
NOrderings == 4

\* The node visited at position p of ordering k.
SweepNodeAt(dm, k, p) ==
  LET nx == Nx(dm)
      ny == Ny(dm)
      ii == p % nx
      jj == p \div nx
      i == IF k \div 2 = 1 THEN nx - 1 - ii ELSE ii
      j == IF k % 2 = 1 THEN ny - 1 - jj ELSE jj
  IN j * nx + i

\* The smaller of the two neighbours along an axis, out-of-range ones excluded.
AxisMin(db, s, lo, hi, stride) ==
  LET below == IF lo THEN db[s - stride] ELSE Inf
      above == IF hi THEN db[s + stride] ELSE Inf
  IN FMin[below, above]

Candidate(db, dm, s) ==
  LET nx == Nx(dm)
      ny == Ny(dm)
      i == s % nx
      j == s \div nx
      a == AxisMin(db, s, i > 0, i < nx - 1, 1)
      b == AxisMin(db, s, j > 0, j < ny - 1, nx)
      lo == FMin[a, b]
      hi == IF lo = a THEN b ELSE a
      one == FAdd[lo, One]
      diff == FSub[hi, lo]
  IN IF one <= hi THEN one
     ELSE FDiv[FAdd[FAdd[lo, hi], FSqrt[FSub[F(2), FMul[diff, diff]]]], F(2)]

\* Faulty variant: the candidate overwrites the node.
RelaxOverwrite(cur, cand) == cand

\* The node's value becomes the minimum of its current value and the candidate.
Relax(cur, cand) == FMin[cur, cand]

SweepUpdate(db, dm, s) == [db EXCEPT ![s] = Relax(db[s], Candidate(db, dm, s))]

(***************************************************************************)
(* lib.rs: the sign pass of signed_distance.                               *)
(***************************************************************************)
SignScale(dv, uv, hh) == IF uv < 0 THEN FMul[FNeg[dv], hh] ELSE FMul[dv, hh]

SignPassAll(db, ub, hh) == [i \in DOMAIN db |-> SignScale(db[i], ub[i], hh)]

(***************************************************************************)
(* Inputs.                                                                 *)
(***************************************************************************)
MaxNodes == 6
MaxInitNodes == 9
MaxNodes3 == 8
RichNodes == 6
SmallNodes == 4
SweepRuns == 2

\* Values of the pure-function specifications, in 128ths: 0, and 1/128,
\* 1/2, 1, 3, 6 and 24.75 with either sign.
Magnitudes == {1, 64, 128, 384, 768, 3168}
Units == {0} \cup Magnitudes \cup {-n : n \in Magnitudes}
Vals == {Fl(n, -7) : n \in Units}
TetVals == {-One, -Tiny, 0, Tiny, One}

\* 2^-600: a magnitude whose square underflows to zero, here as in f64.
Small == Fl(1, -600)

\* Samples of a grid: the smallest grids take every value, larger ones
\* fewer.
CoarseVals == {Fl(-99, -2), 0, One}
GridVals == CoarseVals \cup {-Small, Small}
SignVals == {-One, One}
InputVals(n) ==
  IF n <= SmallNodes THEN GridVals
  ELSE IF n <= RichNodes THEN CoarseVals
  ELSE SignVals
Spacings == {Half, One, F(2)}

Dims2(max, least) ==
  {dm \in (least..max) \X (least..max) \X {1} : Prod(dm) <= max}
Dims3(max, least) ==
  {dm \in (least..max) \X (least..max) \X (least..max) : Prod(dm) <= max}

\* A buffer length that matches the grid, or is off by one.
Lens(n) == {n - 1, n, n + 1} \ {-1}

\* What the caller left in d: zeros, or values that no stage writes.
Zeros(len) == [i \in 0..len - 1 |-> 0]
Garbage(len) == [i \in 0..len - 1 |-> FNeg[F(i + 1)]]
Priors(len) == {Zeros(len), Garbage(len)}

VARIABLES
  entry,    \* the entry point called
  dim,      \* <<nx, ny, nz>>; nz = 1 for the 2D entry points
  u,        \* the level-set buffer
  d,        \* the distance buffer
  d0,       \* d as the caller passed it
  h,        \* the grid spacing
  pc,       \* "call", "fill", "cells", "sweep", "sign", "done", "panic"
  job,      \* the next triangle or tetrahedron of the cell loops
  ord,      \* the sweep ordering in progress
  pos,      \* the position within it
  run,      \* passes of the sweep set still to run after this one
  contrib,  \* per node, the min-updates received from simplices so far
  arg,      \* input of the pure function under check
  ret,      \* its result
  retn      \* its result on the negated input

gvars == <<entry, dim, u, d, d0, h, pc, job, ord, pos, run, contrib>>
pvars == <<arg, ret, retn>>
vars == <<gvars, pvars>>

NoGrid ==
  /\ entry = "none" /\ dim = <<1, 1, 1>> /\ u = <<>> /\ d = <<>> /\ d0 = <<>>
  /\ h = One /\ pc = "done" /\ job = 0 /\ ord = 0 /\ pos = 0 /\ run = 0
  /\ contrib = <<>>

NoPure == arg = <<>> /\ ret = NotCalled /\ retn = NotCalled

(***************************************************************************)
(* The pure functions.                                                     *)
(***************************************************************************)
Negated(a) == [m \in DOMAIN a |-> FNeg[a[m]]]

TriInit == NoGrid /\ arg \in Vals \X Vals \X Vals /\ ret = Pending /\ retn = NotCalled
ApplyTri == ret = Pending /\ ret' = triangle_dist(arg) /\ UNCHANGED <<gvars, arg, retn>>
SpecTri == TriInit /\ [][ApplyTri]_vars

TetInit ==
  /\ NoGrid
  /\ arg \in TetVals \X TetVals \X TetVals \X TetVals
  /\ ret = Pending /\ retn = Pending
ApplyTet == ret = Pending /\ ret' = tetrahedron_dist(arg) /\ UNCHANGED <<gvars, arg, retn>>
ApplyTetNeg ==
  /\ retn = Pending
  /\ retn' = tetrahedron_dist(Negated(arg))
  /\ UNCHANGED <<gvars, arg, ret>>
NextTet == ApplyTet \/ ApplyTetNeg
SpecTet == TetInit /\ [][NextTet]_vars

(***************************************************************************)
(* The entry points on buffers.                                            *)
(***************************************************************************)
Is3d == entry = "init_dist_3d"
NJobs == IF Is3d THEN NTetJobs(dim) ELSE NTriJobs(dim)

CallInit(e, dm, ub, db, hh, runs) ==
  /\ entry = e /\ dim = dm /\ u = ub /\ d = db /\ d0 = db /\ h = hh
  /\ job = 0 /\ ord = 0 /\ pos = 0 /\ run = runs
  /\ contrib = [i \in DOMAIN db |-> 0]
  /\ NoPure

\* The buffers of a call on grid dm: every content when the lengths match.
Calls(e, dm, hs) ==
  \E ulen \in Lens(Prod(dm)), dlen \in Lens(Prod(dm)) :
    \E ub \in [0..ulen - 1 ->
                 IF ulen = Prod(dm) /\ dlen = Prod(dm) THEN InputVals(ulen) ELSE {One}],
       db \in Priors(dlen), hh \in hs :
      CallInit(e, dm, ub, db, hh, 0) /\ pc = "call"

\* The assertions at the head of signed_distance, init_dist and init_dist_3d.
AssertFail ==
  /\ pc = "call"
  /\ ~LensOk(dim, u, d)
  /\ pc' = "panic"
  /\ UNCHANGED <<entry, dim, u, d, d0, h, job, ord, pos, run, contrib, pvars>>

AssertPass ==
  /\ pc = "call"
  /\ LensOk(dim, u, d)
  /\ pc' = "fill"
  /\ UNCHANGED <<entry, dim, u, d, d0, h, job, ord, pos, run, contrib, pvars>>

Fill ==
  /\ pc = "fill"
  /\ d' = FillMax(d)
  /\ pc' = "cells"
  /\ job' = 0
  /\ UNCHANGED <<entry, dim, u, d0, h, ord, pos, run, contrib, pvars>>

Touched(db, ub, q, some) == [i \in DOMAIN db |->
  IF some /\ \E m \in DOMAIN q : q[m] = i THEN contrib[i] + 1 ELSE contrib[i]]

TriStep ==
  /\ pc = "cells" /\ ~Is3d /\ job < NJobs
  /\ LET q == TriJob(dim, job)
     IN /\ d' = TriUpdate(d, u, q)
        /\ contrib' = Touched(d, u, q, IsSome(triangle_dist(<<u[q[1]], u[q[2]], u[q[3]]>>)))
  /\ job' = job + 1
  /\ UNCHANGED <<entry, dim, u, d0, h, pc, ord, pos, run, pvars>>

TetStep ==
  /\ pc = "cells" /\ Is3d /\ job < NJobs
  /\ LET q == TetJob(dim, job)
     IN /\ d' = TetUpdate(d, u, q)
        /\ contrib' = Touched(d, u, q, IsSome(tetrahedron_dist([m \in 1..4 |-> u[q[m]]])))
  /\ job' = job + 1
  /\ UNCHANGED <<entry, dim, u, d0, h, pc, ord, pos, run, pvars>>

\* init_dist returns: to its caller signed_distance, or to the outside.
CellsDone ==
  /\ pc = "cells" /\ job = NJobs
  /\ pc' = IF entry = "signed_distance" THEN "sweep" ELSE "done"
  /\ ord' = 0 /\ pos' = 0
  /\ UNCHANGED <<entry, dim, u, d, d0, h, job, run, contrib, pvars>>

\* One node update of fast_sweep_dist.
SweepNode ==
  /\ pc = "sweep"
  /\ d' = SweepUpdate(d, dim, SweepNodeAt(dim, ord, pos))
  /\ IF pos + 1 < Prod(dim)
     THEN pos' = pos + 1 /\ UNCHANGED <<ord, run, pc>>
     ELSE /\ pos' = 0
          /\ IF ord + 1 < NOrderings
             THEN ord' = ord + 1 /\ UNCHANGED <<run, pc>>
             ELSE /\ ord' = 0
                  /\ IF run > 0
                     THEN run' = run - 1 /\ UNCHANGED pc
                     ELSE /\ UNCHANGED run
                          /\ pc' = IF entry = "signed_distance" THEN "sign" ELSE "done"
  /\ UNCHANGED <<entry, dim, u, d0, h, job, contrib, pvars>>

SignPass ==
  /\ pc = "sign"
  /\ d' = SignPassAll(d, u, h)
  /\ pc' = "done"
  /\ UNCHANGED <<entry, dim, u, d0, h, job, ord, pos, run, contrib, pvars>>

Init ==
  \/ \E dm \in Dims2(MaxNodes, 1) : Calls("signed_distance", dm, Spacings)
  \/ \E dm \in Dims2(MaxNodes, 0) : Calls("init_dist", dm, {One})
  \/ \E dm \in Dims3(MaxNodes3, 0) : Calls("init_dist_3d", dm, {One})

Next ==
  \/ AssertFail
  \/ AssertPass
  \/ Fill
  \/ TriStep
  \/ TetStep
  \/ CellsDone
  \/ SweepNode
  \/ SignPass

Spec == Init /\ [][Next]_vars

\* init_dist alone, on grids with at least one cell, up to 3 x 3.
InitInit == \E dm \in Dims2(MaxInitNodes, 2) : Calls("init_dist", dm, {One})
NextInit == AssertFail \/ AssertPass \/ Fill \/ TriStep \/ CellsDone
SpecInit == InitInit /\ [][NextInit]_vars

\* init_dist as a function of its buffers.
RECURSIVE InitDistFrom(_, _, _, _)
InitDistFrom(db, ub, dm, t) ==
  IF t = NTriJobs(dm) THEN db
  ELSE InitDistFrom(TriUpdate(db, ub, TriJob(dm, t)), ub, dm, t + 1)

init_dist(db, ub, dm) == InitDistFrom(FillMax(db), ub, dm, 0)

\* fast_sweep_dist on the output of init_dist, and the sweep set run again on
\* its own output.
SweepInit ==
  \E dm \in Dims2(MaxNodes, 1) :
    \E ub \in [0..Prod(dm) - 1 -> InputVals(Prod(dm))] :
      CallInit("fast_sweep_dist", dm, ub, init_dist(Zeros(Prod(dm)), ub, dm), One,
               SweepRuns - 1)
      /\ pc = "sweep"
NextSweep == SweepNode
SpecSweep == SweepInit /\ [][NextSweep]_vars

(***************************************************************************)
(* Claims.                                                                 *)
(***************************************************************************)
Nodes == DOMAIN d
AllPositive(b) == \A i \in DOMAIN b : b[i] > 0
AllNegative(b) == \A i \in DOMAIN b : b[i] < 0
Mismatch == BufLen(u) # Prod(dim) \/ BufLen(d) # Prod(dim)

\* C1 (as claimed): when signed_distance returns on a grid whose samples
\* are all strictly positive, every entry of d is the sentinel FMAX itself,
\* whatever the spacing h; all strictly negative, every entry is -FMAX.
C1_SentinelWhateverSpacing ==
  (entry = "signed_distance" /\ pc = "done") =>
    /\ AllPositive(u) => \A i \in Nodes : d[i] = FMAX
    /\ AllNegative(u) => \A i \in Nodes : d[i] = -FMAX

\* C2 (as claimed): after signed_distance returns, d[i] <= 0 wherever
\* u[i] < 0 and d[i] >= 0 wherever u[i] >= 0; and from the end of init_dist
\* to the sign pass every entry of d is non-negative.
C2_SignsFollowInput ==
  entry = "signed_distance" =>
    /\ pc = "done" =>
         \A i \in Nodes : (u[i] < 0 => d[i] <= 0) /\ (u[i] >= 0 => d[i] >= 0)
    /\ ((pc = "cells" /\ job = NJobs) \/ pc \in {"sweep", "sign"}) =>
         \A i \in Nodes : d[i] >= 0

\* C3: a call whose u or d differs in length from the product of dim never
\* leaves the assertions: it has written nothing to d, it is about to panic
\* or has panicked, and only such calls panic.
C3_MismatchAborts ==
  /\ Mismatch => pc \in {"call", "panic"} /\ d = d0
  /\ (Mismatch /\ pc = "call") => ENABLED AssertFail /\ ~ENABLED AssertPass
  /\ pc = "panic" => Mismatch

C3_Witness ==
  /\ entry = "init_dist_3d" /\ pc = "panic"
  /\ BufLen(u) = Prod(dim) /\ BufLen(d) # Prod(dim)

\* The triangles of init_dist that have node n as a vertex.
Incident(n) ==
  {t \in 0..NTriJobs(dim) - 1 : \E m \in 1..3 : TriJob(dim, t)[m] = n}
TriValues(t) ==
  LET q == TriJob(dim, t) IN <<u[q[1]], u[q[2]], u[q[3]]>>
\* The distance triangle t gives node n.
VertexDist(t, n) ==
  triangle_dist(TriValues(t)).val[CHOOSE m \in 1..3 : TriJob(dim, t)[m] = n]
BothSigns(v) == (\E m \in 1..3 : v[m] < 0) /\ (\E m \in 1..3 : v[m] > 0)
SameStrictSign(v) == (\A m \in 1..3 : v[m] > 0) \/ (\A m \in 1..3 : v[m] < 0)
Least(S) == CHOOSE x \in S : \A y \in S : x <= y

\* d[n] after init_dist, given which triangles count.
InitAnswer(n, counts(_)) ==
  LET T == {t \in Incident(n) : counts(TriValues(t))}
  IN IF T = {} THEN d[n] = FMAX
     ELSE d[n] # FMAX /\ d[n] = Least({VertexDist(t, n) : t \in T})

\* C4 (as claimed): after init_dist, d[n] is the sentinel exactly when no
\* triangle incident to n has vertex values of both signs, and otherwise
\* the minimum over those triangles of the distance triangle_dist gives n.
C4_OnlyBothSigns ==
  (entry = "init_dist" /\ pc = "done") =>
    \A n \in Nodes :
      InitAnswer(n, LAMBDA v : BothSigns(v))

\* The triangles incident to n whose values are not of one strict sign:
\* those for which triangle_dist returns Some.
Crossed(n) == {t \in Incident(n) : ~SameStrictSign(TriValues(t))}
\* The distances they give n that are numbers.
Offered(n) == {x \in {VertexDist(t, n) : t \in Crossed(n)} : ~IsNaN(x)}

\* C4 (amended): after init_dist, d[n] is the minimum of the sentinel and
\* the distances triangle_dist gives n in the incident triangles whose
\* values are not of one strict sign, a NaN among them ignored; whatever d
\* held before the call.  So d[n] is the sentinel when every incident
\* triangle has three values of one strict sign, and also when the others
\* give n only infinite or NaN distances.
C4_InitIsMinOverCrossed ==
  (entry = "init_dist" /\ pc = "done") =>
    \A n \in Nodes : d[n] = Least({FMAX} \cup Offered(n))

C4_Witness ==
  /\ entry = "init_dist" /\ pc = "done" /\ d0 = Garbage(BufLen(d))
  /\ \E n \in Nodes : d[n] = FMAX /\ Crossed(n) # {}
  /\ \E n \in Nodes :
       /\ d[n] < FMAX
       /\ \E t1 \in Crossed(n), t2 \in Crossed(n) :
            /\ VertexDist(t1, n) < VertexDist(t2, n)
            /\ t1 < t2

\* C5: triangle_dist returns None if and only if its three values are all
\* strictly positive or all strictly negative.
C5_NoneIffStrictSign ==
  Returned(ret) => (IsNone(ret) <=> SameStrictSign(arg))

C5_Witness ==
  /\ IsSome(ret)
  /\ arg[1] = 0 /\ arg[2] > 0 /\ arg[3] > 0

HasZero(v) == \E m \in 1..3 : v[m] = 0
NonzeroShareSign(v) == ~BothSigns(v)
\* The distances the zero pattern alone determines.
ZeroPatternDist(v) ==
  LET z0 == v[1] = 0
      z1 == v[2] = 0
      z2 == v[3] = 0
  IN IF z0 /\ z1 /\ z2 THEN <<0, 0, 0>>
     ELSE IF z1 /\ z2 THEN <<SqrtHalf, 0, 0>>
     ELSE IF z0 THEN <<0, IF z1 THEN 0 ELSE One, IF z2 THEN 0 ELSE One>>
     ELSE IF z1 THEN <<One, 0, Sqrt2>>
     ELSE <<One, Sqrt2, 0>>

\* C6 (as claimed): on an input with a zero vertex whose nonzero values
\* share one sign, triangle_dist returns Some of the distances that the
\* positions of the zeros determine.
C6_ZeroPatternDecides ==
  (Returned(ret) /\ HasZero(arg) /\ NonzeroShareSign(arg)) =>
    IsSome(ret) /\ ret.val = ZeroPatternDist(arg)

\* Geometry of the triangle (0,0), (1,0), (0,1) for an input without zeros
\* and with both signs.  Exact(v) is the input in 128ths, as integers.
Generic(v) == ~HasZero(v) /\ BothSigns(v)
Exact(v) == [m \in 1..3 |-> CHOOSE n \in Units : Fl(n, -7) = v[m]]
Gx(v) == Exact(v)[2] - Exact(v)[1]
Gy(v) == Exact(v)[3] - Exact(v)[1]
G2(v) == Gx(v) * Gx(v) + Gy(v) * Gy(v)
\* The foot of the perpendicular from vertex k lies in the triangle (exactly).
FootInside(v, k) ==
  LET x == (IF k = 2 THEN G2(v) ELSE 0) - Exact(v)[k] * Gx(v)
      y == (IF k = 3 THEN G2(v) ELSE 0) - Exact(v)[k] * Gy(v)
  IN x >= 0 /\ y >= 0 /\ x + y <= G2(v)
VertexX(k) == IF k = 2 THEN One ELSE 0
VertexY(k) == IF k = 3 THEN One ELSE 0
\* The crossing point on edge a-b, when the values there differ in sign.
Crossing(v, a, b) ==
  LET t == FDiv[Abs(v[a]), FAdd[Abs(v[a]), Abs(v[b])]]
  IN <<FAdd[VertexX(a), FMul[t, FSub[VertexX(b), VertexX(a)]]],
       FAdd[VertexY(a), FMul[t, FSub[VertexY(b), VertexY(a)]]]>>
Edges == {<<1, 2>>, <<1, 3>>, <<2, 3>>}
Endpoints(v) ==
  {Crossing(v, e[1], e[2]) : e \in {e \in Edges : (v[e[1]] < 0) # (v[e[2]] < 0)}}
PointDist(k, pt) ==
  FSqrt[FAdd[Sq[FSub[pt[1], VertexX(k)]], Sq[FSub[pt[2], VertexY(k)]]]]
Perpendicular(v, k) ==
  FDiv[Abs(v[k]), FSqrt[FAdd[Sq[FSub[v[2], v[1]]], Sq[FSub[v[3], v[1]]]]]]
SegmentDist(v, k) ==
  IF FootInside(v, k) THEN Perpendicular(v, k)
  ELSE Least({PointDist(k, pt) : pt \in Endpoints(v)})
\* Two values agree up to 1/8, far above the rounding of a handful of
\* operations on values up to 2.
Tol == Fl(1, -3)
Near(a, b) == Abs(FSub[a, b]) <= Tol

\* C7 (as claimed): on an input without zeros and with both signs,
\* each vertex gets the perpendicular distance to the zero line when the
\* foot of its perpendicular lies on the segment inside the triangle, and
\* otherwise the distance to the nearer end of the segment.
C7_DistanceToSegment ==
  (Returned(ret) /\ Generic(arg)) =>
    IsSome(ret) /\ \A k \in 1..3 : Near(ret.val[k], SegmentDist(arg, k))

\* C8: no node update of a sweep increases an entry of d, in any of the
\* orderings, in the first run of the sweep set or when it is run again on
\* its own output; the update touches the visited node alone.
C8_SweepNeverIncreases ==
  [][pc = "sweep" =>
       \A i \in Nodes :
         /\ d'[i] <= d[i]
         /\ i # SweepNodeAt(dim, ord, pos) => d'[i] = d[i]]_vars

C8_Witness ==
  /\ entry = "fast_sweep_dist" /\ pc = "sweep" /\ run = 0 /\ ord = 1
  /\ \E i \in Nodes : d0[i] = FMAX /\ d[i] < FMAX
  /\ \E i \in Nodes : d0[i] < FMAX

Sign(x) == IF x < 0 THEN -1 ELSE IF x > 0 THEN 1 ELSE 0
Unanimous(v) == \A m \in 1..4 : Sign(v[m]) = Sign(v[1])
FourDistances(r) == IsSome(r) => DOMAIN r.val = 1..4

\* C9 (as claimed): tetrahedron_dist returns Some, of four distances,
\* exactly when the four signs are not unanimous, and an input and its
\* negation have the same outcome, zeros included.
C9_SameUnderNegation ==
  (Returned(ret) /\ Returned(retn)) =>
    /\ IsSome(ret) <=> ~Unanimous(arg)
    /\ FourDistances(ret)
    /\ IsSome(ret) <=> IsSome(retn)

\* C9 (amended): tetrahedron_dist returns Some, of four distances, exactly
\* when some value is negative and some value is not (zero counts with the
\* positive values), and an input without zeros and its negation have the
\* same outcome.
C9_ZeroCountsAsPositive ==
  /\ Returned(ret) =>
       /\ IsSome(ret) <=> ((\E m \in 1..4 : arg[m] < 0) /\ (\E m \in 1..4 : arg[m] >= 0))
       /\ FourDistances(ret)
  /\ (Returned(ret) /\ Returned(retn) /\ \A m \in 1..4 : arg[m] # 0) =>
       (IsSome(ret) <=> IsSome(retn))

C9_Witness ==
  /\ IsSome(ret) /\ IsNone(retn)
  /\ arg[1] = 0 /\ arg[4] < 0

\* C10 (as claimed): in init_dist a node receives min-updates from at most
\* 4 triangles.
C10_AtMostFour == entry = "init_dist" => \A n \in Nodes : contrib[n] <= 4

\* C10 (amended): in init_dist a node receives min-updates from at most 6
\* triangles.
C10_AtMostSix == entry = "init_dist" => \A n \in Nodes : contrib[n] <= 6

C10_Witness == entry = "init_dist" /\ pc = "done" /\ \E n \in Nodes : contrib[n] = 6
====
